---- MODULE Spec2Model ----
(***************************************************************************)
(* Voltx Modbus integration: the polling coordinator                       *)
(* (custom_components/voltx_modbus/coordinator.py), the entry setup        *)
(* (__init__.py) and the write path used by the number/select entities.    *)
(*                                                                         *)
(* One config entry, one coordinator.  Blocking Modbus I/O runs in         *)
(* executor threads, so every Modbus call (open, one block read, one       *)
(* register write, close) is a step of its own and steps of different      *)
(* jobs interleave freely.  What runs on the event loop between two awaits *)
(* is one step.                                                            *)
(*                                                                         *)
(* VoltxModbusCoordinator derives from Home Assistant's                    *)
(* DataUpdateCoordinator.  The inherited refresh machinery               *)
(* (_async_refresh, the interval timer, the request-refresh debouncer,     *)
(* async_config_entry_first_refresh) is modelled at the places where this  *)
(* repository calls into it.                                               *)
(*                                                                         *)
(* Spec follows the coordinator of one entry: set-up, polling, writes and  *)
(* the options update.  SpecFlow follows the config entries through user   *)
(* and reconfigure flows (config_flow.py).  SpecCodec runs the decoding    *)
(* helpers, the register write and the entities' write paths (number.py,   *)
(* select.py) one call at a time over their arguments.                     *)
(***************************************************************************)
EXTENDS Integers, Sequences, FiniteSets, TLC

\* ------------------------------------------------------------------ bounds

\* Timer-driven refreshes that may be in flight at once (each one is a task
\* of its own; the refresh started through the debouncer uses slot 0).
MaxTimerPolls == 1

\* async_request_refresh tasks created by writes and not yet run.
MaxPendingRefresh == 1

\* Modbus sessions (one client.open() ... client.close()) of one run in
\* which the device or the network fails: a refused connection, unanswered
\* or short block reads, an unexpected exception, a rejected write.
MaxFaultySessions == 1

\* Options flows submitted in one run.
MaxOptionsUpdates == 1

\* Config entries of the integration that may exist at once.
MaxEntries == 2

\* ------------------------------------------------------------ register map

Blocks == {"inv", "bstat", "bdata", "hold"}

\* The order in which _fetch_data reads the blocks.
BlockOrder == <<"inv", "bstat", "bdata", "hold">>

NumBlocks == Len(BlockOrder)

\* Words requested of each block.
Count(b) ==
    CASE b = "inv" -> 80
      [] b = "bstat" -> 2
      [] b = "bdata" -> 13
      [] b = "hold" -> 55

\* Variant: the inverter block accepted from 70 words on.
MinWordsLow(b) ==
    CASE b = "inv" -> 70
      [] b = "bstat" -> 2
      [] b = "bdata" -> 13
      [] b = "hold" -> 55

\* Least response length the block's check accepts.
MinWords(b) ==
    CASE b = "inv" -> 75
      [] b = "bstat" -> 2
      [] b = "bdata" -> 13
      [] b = "hold" -> 55

\* Keys the decoder stores for an accepted block.
BlockKeys(b) ==
    CASE b = "inv" -> {"hto", "flg", "tmp", "vbus", "vac", "iac", "fac",
                       "sac", "pac", "qac", "pf"}
      [] b = "bstat" -> {"bcomm", "bst"}
      [] b = "bdata" -> {"vb", "cb", "pb", "tb", "soc", "soh", "cli", "clo",
                         "e_chg_today", "e_dis_today"}
      [] b = "hold" -> {"work_mode", "cloud_status", "chflg", "chpwr",
                        "soc_max", "soc_min"}

KeysOf(bs) == UNION {BlockKeys(b) : b \in bs}

\* A response of None is length -1 here.
NoResponse == -1

\* Response lengths the device may answer a block read with.
RespLens(b) == {NoResponse, 0, MinWords(b) - 1, MinWords(b), Count(b)}

\* `regs is not None and len(regs) >= <min>`
Accepted(b, len) == len # NoResponse /\ len >= MinWords(b)

\* ---------------------------------------------------------------- catalogue

SensorKeys == {"pac", "sac", "qac", "iac", "tmp", "flg", "vac", "fac", "pf",
               "hto", "pb", "soc", "vb", "cb", "tb", "soh", "cli", "clo",
               "bst", "bcomm", "e_chg_today", "e_dis_today", "chflg", "chpwr"}

NumberKeys == {"chpwr", "soc_max", "soc_min"}

SelectKeys == {"work_mode"}

Catalogue ==
    ({"sensor"} \X SensorKeys) \cup ({"number"} \X NumberKeys)
        \cup ({"select"} \X SelectKeys)

\* ----------------------------------------------------------------- options

\* const.py: the poll interval of an entry without options, seconds.
DEFAULT_SCAN_INTERVAL == 30

\* Intervals the options form is submitted with (it takes 5 to 3600).
ScanIntervals == {DEFAULT_SCAN_INTERVAL, 60}

\* No coordinator has been built yet.
NoInterval == 0

\* ------------------------------------------------------------------- state

\* Slot 0 runs the first refresh and, later, the refresh started through the
\* debouncer (its lock admits one at a time); slots 1.. run timer refreshes.
Slots == 0..MaxTimerPolls

\* A dict object: obj is its identity (0: None), keys its key set.
NoObj == [obj |-> 0, keys |-> {}]

VARIABLES
    setup,                \* async_setup_entry: new, first_refresh, refreshed,
                          \*   loaded, not_ready
    runtime_data,         \* entry.runtime_data holds the coordinator
    entities,             \* <<platform, key>> of the entities created
    data,                 \* coordinator.data
    last_update_success,  \* coordinator.last_update_success
    unsub_refresh,        \* the interval timer is armed
    db_timer,             \* debouncer: cool-down timer running
    db_exec_at_end,       \* debouncer: call again when the cool-down ends
    pc,                   \* per slot: idle, open, read, close, done, result
    idx,                  \* per slot: index in BlockOrder of the next read
    ok,                   \* per slot: blocks the device answered acceptably
    acc,                  \* per slot: the dict `data` of _fetch_data
    exc,                  \* per slot: exception of _fetch_data: none, UpdateFailed, Exception
    res,                  \* per slot: how _async_update_data ended: none (not yet),
                          \*   data, UpdateFailed, Exception
    wpc,                  \* write call: idle, open, write, close, done, returned, raised
    wexc,                 \* write call: exception in flight
    wreq,                 \* refresh requests created by the current write call
    reqTasks,             \* async_request_refresh tasks created, not yet run
    faults,               \* sessions with a failure so far
    options,              \* entry.options[scan_interval]
    update_interval,      \* coordinator.update_interval, seconds
    listenerTasks,        \* _async_update_listener tasks created, not yet run
    optionsUpdates,       \* options flows submitted so far
    call,                 \* codec: the call under study and its arguments
    ret,                  \* codec: <<>> before the call returns, then <<value>>
    holding,              \* codec: the device's holding registers
    entries,              \* config flow: the config entries, by entry id
    flow                  \* config flow: the flow in progress

vars == <<setup, runtime_data, entities, data, last_update_success,
          unsub_refresh, db_timer, db_exec_at_end,
          pc, idx, ok, acc, exc, res, wpc, wexc, wreq, reqTasks, faults,
          options, update_interval, listenerTasks, optionsUpdates,
          call, ret, holding, entries, flow>>

setupVars == <<setup, runtime_data, entities>>
coordVars == <<data, last_update_success>>
dbVars == <<db_timer, db_exec_at_end>>
slotVars == <<pc, idx, ok, acc, exc, res>>
writeVars == <<wpc, wexc, wreq>>
optVars == <<options, update_interval, listenerTasks, optionsUpdates>>
codecVars == <<call, ret, holding>>
flowVars == <<entries, flow>>
pollVars == <<setupVars, coordVars, unsub_refresh, dbVars, slotVars, writeVars,
              reqTasks, faults, optVars>>

\* No codec call is under study.
NoCall == [fn |-> "none"]

\* No config flow is in progress.
NoFlow == [step |-> "none"]

\* Ids of the config entries.
EntryIds == 1..MaxEntries

\* An entry id that is not in use.
NoEntry == [unique_id |-> <<>>, data |-> <<>>]

\* The holding registers the settings block covers, all 0 at first.
HoldBase == 1100

HoldAddrs == HoldBase..(HoldBase + Count("hold") - 1)

InitPoll ==
    /\ setup = "new"
    /\ runtime_data = FALSE
    /\ entities = {}
    /\ data = NoObj
    /\ last_update_success = TRUE
    /\ unsub_refresh = FALSE
    /\ db_timer = FALSE
    /\ db_exec_at_end = FALSE
    /\ pc = [s \in Slots |-> "idle"]
    /\ idx = [s \in Slots |-> 0]
    /\ ok = [s \in Slots |-> {}]
    /\ acc = [s \in Slots |-> NoObj]
    /\ exc = [s \in Slots |-> "none"]
    /\ res = [s \in Slots |-> "none"]
    /\ wpc = "idle"
    /\ wexc = "none"
    /\ wreq = 0
    /\ reqTasks = 0
    /\ faults = 0
    /\ options = DEFAULT_SCAN_INTERVAL
    /\ update_interval = NoInterval
    /\ listenerTasks = 0
    /\ optionsUpdates = 0

InitFlow ==
    /\ entries = [e \in EntryIds |-> NoEntry]
    /\ flow = NoFlow

Init ==
    /\ InitPoll
    /\ InitFlow
    /\ call = NoCall
    /\ ret = <<>>
    /\ holding = [a \in HoldAddrs |-> 0]

\* ------------------------------------------------------------ poll cycle

\* The environment produces a failure in a session: the first failure of a
\* session takes one of the run's faulty sessions.
Fault(failing, faultyAlready) ==
    IF failing /\ ~faultyAlready
    THEN faults < MaxFaultySessions /\ faults' = faults + 1
    ELSE faults' = faults

\* The session of slot s has seen a failure: a block already read was not
\* accepted (the reads done so far are idx[s] - 1).
FaultySession(s) == Cardinality(ok[s]) < idx[s] - 1

InFetch(s) == pc[s] \in {"open", "read", "close"}

\* Identity of a dict created now: different from every live dict.
LiveObjs == {data.obj} \cup {acc[s].obj : s \in Slots}

\* Variant: _fetch_data fills the dict the coordinator already holds.
NewObjReuse == IF data.obj # 0 THEN data.obj ELSE 1

NewObj == CHOOSE n \in 1..(Cardinality(Slots) + 1) :
              /\ n \notin LiveObjs
              /\ \A m \in 1..(Cardinality(Slots) + 1) : m \notin LiveObjs => n <= m

\* DataUpdateCoordinator._async_refresh, its start: the interval timer and the
\* debouncer's cool-down are cancelled, then _async_update_data hands
\* _fetch_data to the executor.
StartRefresh(s) ==
    /\ pc[s] = "idle"
    /\ unsub_refresh' = FALSE
    /\ db_timer' = FALSE
    /\ db_exec_at_end' = FALSE
    /\ pc' = [pc EXCEPT ![s] = "open"]
    /\ idx' = [idx EXCEPT ![s] = 0]
    /\ ok' = [ok EXCEPT ![s] = {}]
    /\ acc' = [acc EXCEPT ![s] = NoObj]
    /\ exc' = [exc EXCEPT ![s] = "none"]
    /\ res' = [res EXCEPT ![s] = "none"]

\* Variant: the refused connection raises outside the try block, so the
\* `finally` with client.close() is not run.
FetchOpenNoClose(s) ==
    /\ pc[s] = "open"
    /\ \E r \in {"opened", "refused", "raised"} :
          /\ Fault(r # "opened", FALSE)
          /\ CASE r = "opened" ->
                 /\ pc' = [pc EXCEPT ![s] = "read"]
                 /\ idx' = [idx EXCEPT ![s] = 1]
                 /\ acc' = [acc EXCEPT ![s] = [obj |-> NewObj, keys |-> {}]]
                 /\ exc' = exc
              [] r = "refused" ->
                 /\ pc' = [pc EXCEPT ![s] = "done"]
                 /\ exc' = [exc EXCEPT ![s] = "UpdateFailed"]
                 /\ UNCHANGED <<idx, acc>>
              [] r = "raised" ->
                 /\ pc' = [pc EXCEPT ![s] = "close"]
                 /\ exc' = [exc EXCEPT ![s] = "Exception"]
                 /\ UNCHANGED <<idx, acc>>
    /\ UNCHANGED <<codecVars, flowVars, optVars, setupVars, coordVars,
                   unsub_refresh, dbVars, ok, res, writeVars, reqTasks>>

\* client.open(): opened (data = {} follows), refused (UpdateFailed), or an
\* unexpected exception.
FetchOpen(s) ==
    /\ pc[s] = "open"
    /\ \E r \in {"opened", "refused", "raised"} :
          /\ Fault(r # "opened", FALSE)
          /\ CASE r = "opened" ->
                 /\ pc' = [pc EXCEPT ![s] = "read"]
                 /\ idx' = [idx EXCEPT ![s] = 1]
                 /\ acc' = [acc EXCEPT ![s] = [obj |-> NewObj, keys |-> {}]]
                 /\ exc' = exc
              [] r = "refused" ->
                 /\ pc' = [pc EXCEPT ![s] = "close"]
                 /\ exc' = [exc EXCEPT ![s] = "UpdateFailed"]
                 /\ UNCHANGED <<idx, acc>>
              [] r = "raised" ->
                 /\ pc' = [pc EXCEPT ![s] = "close"]
                 /\ exc' = [exc EXCEPT ![s] = "Exception"]
                 /\ UNCHANGED <<idx, acc>>
    /\ UNCHANGED <<codecVars, flowVars, optVars, setupVars, coordVars, unsub_refresh, dbVars, ok, res,
                   writeVars, reqTasks>>

\* Variant: the cycle stops at the first block that fails.
AfterReadAbort(i, accepted) ==
    IF accepted /\ i < NumBlocks THEN "read" ELSE "close"

\* Where _fetch_data goes after the read of block number i: to the next
\* block, whatever the outcome, and to `return data` after the last one.
AfterRead(i, accepted) == IF i = NumBlocks THEN "close" ELSE "read"

\* One block read and its decoding.
FetchRead(s) ==
    /\ pc[s] = "read"
    /\ LET b == BlockOrder[idx[s]] IN
       \/ \E len \in RespLens(b) :
             /\ Fault(~Accepted(b, len), FaultySession(s))
             /\ ok' = [ok EXCEPT ![s] = IF Accepted(b, len) THEN @ \cup {b} ELSE @]
             /\ acc' = [acc EXCEPT ![s].keys =
                            IF Accepted(b, len) THEN @ \cup BlockKeys(b) ELSE @]
             /\ pc' = [pc EXCEPT ![s] = AfterRead(idx[s], Accepted(b, len))]
             /\ idx' = [idx EXCEPT ![s] = @ + 1]
             /\ exc' = exc
       \/ /\ Fault(TRUE, FaultySession(s))
          /\ pc' = [pc EXCEPT ![s] = "close"]
          /\ exc' = [exc EXCEPT ![s] = "Exception"]
          /\ UNCHANGED <<idx, ok, acc>>
    /\ UNCHANGED <<codecVars, flowVars, optVars, setupVars, coordVars, unsub_refresh, dbVars, res, writeVars,
                   reqTasks>>

\* finally: client.close(); the executor job ends.
FetchClose(s) ==
    /\ pc[s] = "close"
    /\ pc' = [pc EXCEPT ![s] = "done"]
    /\ UNCHANGED <<codecVars, flowVars, optVars, setupVars, coordVars, unsub_refresh, dbVars, idx, ok, acc,
                   exc, res, writeVars, reqTasks, faults>>

\* What the executor job hands back to _async_update_data.
JobResult(s) == IF exc[s] = "none" THEN "data" ELSE exc[s]

\* Variant: without the `except Exception` clause.
AsyncUpdateDataNoCatch(r) == r

\* Variant: a failure is swallowed and reported as a result.
AsyncUpdateDataSwallow(r) == "data"

\* _async_update_data: the job's data is returned, UpdateFailed passes, any
\* other exception becomes UpdateFailed.
AsyncUpdateData(r) ==
    IF r = "data" THEN "data"
    ELSE IF r = "UpdateFailed" THEN "UpdateFailed"
    ELSE "UpdateFailed"

\* _async_update_data resumes after the executor job.
UpdateData(s) ==
    /\ pc[s] = "done"
    /\ pc' = [pc EXCEPT ![s] = "result"]
    /\ res' = [res EXCEPT ![s] = AsyncUpdateData(JobResult(s))]
    /\ UNCHANGED <<codecVars, flowVars, optVars, setupVars, coordVars, unsub_refresh, dbVars, idx, ok, acc,
                   exc, writeVars, reqTasks, faults>>

\* DataUpdateCoordinator._async_refresh, after _async_update_data: the result
\* replaces data, an exception clears last_update_success and leaves data;
\* the interval timer is armed again when there are listeners.  The first
\* refresh decides async_config_entry_first_refresh; a refresh run by the
\* debouncer starts its cool-down.
RefreshFinish(s) ==
    /\ pc[s] = "result"
    /\ data' = IF res[s] = "data" THEN acc[s] ELSE data
    /\ last_update_success' = (res[s] = "data")
    /\ setup' = IF s = 0 /\ setup = "first_refresh"
                THEN (IF res[s] = "data" THEN "refreshed" ELSE "not_ready")
                ELSE setup
    /\ unsub_refresh' = (entities # {})
    /\ db_timer' = IF s = 0 /\ setup = "loaded" THEN TRUE ELSE db_timer
    /\ pc' = [pc EXCEPT ![s] = "idle"]
    /\ idx' = [idx EXCEPT ![s] = 0]
    /\ ok' = [ok EXCEPT ![s] = {}]
    /\ acc' = [acc EXCEPT ![s] = NoObj]
    /\ exc' = [exc EXCEPT ![s] = "none"]
    /\ res' = [res EXCEPT ![s] = "none"]
    /\ UNCHANGED <<codecVars, flowVars, optVars, runtime_data, entities,
                   db_exec_at_end, writeVars, reqTasks, faults>>

\* ------------------------------------------------------------------ setup

\* async_setup_entry up to the first refresh; also Home Assistant's retry
\* after ConfigEntryNotReady, which builds a new coordinator.  The
\* coordinator's interval is the entry's option.
SetupEntry ==
    /\ setup \in {"new", "not_ready"}
    /\ setup' = "first_refresh"
    /\ update_interval' = options
    /\ data' = NoObj
    /\ last_update_success' = TRUE
    /\ StartRefresh(0)
    /\ UNCHANGED <<codecVars, flowVars, options, listenerTasks, optionsUpdates,
                   runtime_data, entities, writeVars, reqTasks, faults>>

\* Variant: the platforms create an entity for every catalogue key.
SetupForwardAll ==
    /\ setup = "refreshed"
    /\ runtime_data' = TRUE
    /\ entities' = Catalogue
    /\ unsub_refresh' = (entities' # {})
    /\ setup' = "loaded"
    /\ UNCHANGED <<codecVars, flowVars, optVars, coordVars, dbVars, slotVars,
                   writeVars, reqTasks, faults>>

\* async_setup_entry after the first refresh: runtime_data, then the
\* platforms create an entity per catalogue key present in coordinator.data;
\* the first listener arms the interval timer.
SetupForward ==
    /\ setup = "refreshed"
    /\ runtime_data' = TRUE
    /\ entities' = {e \in Catalogue : e[2] \in data.keys}
    /\ unsub_refresh' = (entities' # {})
    /\ setup' = "loaded"
    /\ UNCHANGED <<codecVars, flowVars, optVars, coordVars, dbVars, slotVars,
                   writeVars, reqTasks, faults>>

\* Variant: availability without the check of the entity's key.
AvailableAnyKey(e) == last_update_success /\ data.obj # 0

\* The `available` property of the sensor, number and select entities:
\* super().available is coordinator.last_update_success.
Available(e) == last_update_success /\ data.obj # 0 /\ e[2] \in data.keys

\* ---------------------------------------------------------------- options

\* VoltxModbusOptionsFlow.async_step_init with user input: the entry's
\* options are replaced and every registered update listener is called in a
\* task of its own (a submission that changes nothing has no effect).  The
\* listener is registered at the end of async_setup_entry.
OptionsFlowInit ==
    /\ optionsUpdates < MaxOptionsUpdates
    /\ optionsUpdates' = optionsUpdates + 1
    /\ \E v \in ScanIntervals \ {options} :
          /\ options' = v
          /\ listenerTasks' = IF setup = "loaded"
                              THEN listenerTasks + 1 ELSE listenerTasks
    /\ UNCHANGED <<codecVars, flowVars, update_interval, setupVars, coordVars,
                   unsub_refresh, dbVars, slotVars, writeVars, reqTasks, faults>>

\* _async_update_listener: hass.config_entries.async_reload(entry_id).  The
\* reload waits for a set-up in progress, unloads the entry
\* (async_unload_entry removes the platforms' entities, the runtime data goes)
\* and runs async_setup_entry again: a new coordinator with no data starts
\* its first refresh.  One coordinator is followed at a time: the reload is
\* taken when the coordinator it discards has no cycle, write call or
\* refresh request in flight.
UpdateListener ==
    /\ listenerTasks > 0
    /\ setup \in {"loaded", "not_ready"}
    /\ \A s \in Slots : pc[s] = "idle"
    /\ wpc = "idle"
    /\ reqTasks = 0
    /\ listenerTasks' = listenerTasks - 1
    /\ runtime_data' = FALSE
    /\ entities' = {}
    /\ setup' = "first_refresh"
    /\ update_interval' = options
    /\ data' = NoObj
    /\ last_update_success' = TRUE
    /\ StartRefresh(0)
    /\ UNCHANGED <<codecVars, flowVars, options, optionsUpdates, writeVars,
                   reqTasks, faults>>

\* ------------------------------------------------------------------ timer

\* The interval timer fires: _handle_refresh_interval.
TimerTick ==
    /\ setup = "loaded"
    /\ unsub_refresh
    /\ \E s \in Slots \ {0} :
          /\ pc[s] = "idle"
          /\ \A t \in Slots \ {0} : t < s => pc[t] # "idle"
          /\ StartRefresh(s)
    /\ UNCHANGED <<codecVars, flowVars, optVars, setupVars, coordVars, writeVars, reqTasks, faults>>

\* -------------------------------------------------------------- debouncer

\* The debouncer's lock is held while the refresh it started is running.
DebouncerLocked == pc[0] # "idle"

\* The task created by async_write_register runs async_request_refresh:
\* Debouncer.async_call.
RunRequest ==
    /\ reqTasks > 0
    /\ reqTasks' = reqTasks - 1
    /\ IF db_timer
       THEN /\ db_exec_at_end' = TRUE
            /\ UNCHANGED <<unsub_refresh, db_timer, slotVars>>
       ELSE IF DebouncerLocked
       THEN UNCHANGED <<unsub_refresh, dbVars, slotVars>>
       ELSE StartRefresh(0)
    /\ UNCHANGED <<codecVars, flowVars, optVars, setupVars, coordVars, writeVars, faults>>

\* The cool-down ends: a call that arrived meanwhile is made now.
DebounceTimerFinish ==
    /\ db_timer
    /\ IF db_exec_at_end /\ ~DebouncerLocked
       THEN StartRefresh(0)
       ELSE /\ db_timer' = FALSE
            /\ db_exec_at_end' = FALSE
            /\ UNCHANGED <<unsub_refresh, slotVars>>
    /\ UNCHANGED <<codecVars, flowVars, optVars, setupVars, coordVars, writeVars, reqTasks, faults>>

\* ------------------------------------------------------------------ write

WritableEntities == {e \in entities : e[1] \in {"number", "select"}}

\* async_set_native_value / async_select_option call async_write_register,
\* which hands _write_register to the executor.
WriteCall ==
    /\ setup = "loaded"
    /\ WritableEntities # {}
    /\ wpc = "idle"
    /\ reqTasks < MaxPendingRefresh
    /\ wpc' = "open"
    /\ wexc' = "none"
    /\ wreq' = 0
    /\ UNCHANGED <<codecVars, flowVars, optVars, setupVars, coordVars, unsub_refresh, dbVars, slotVars,
                   reqTasks, faults>>

\* _write_register: client.open().
WriteOpen ==
    /\ wpc = "open"
    /\ \E opened \in BOOLEAN :
          /\ Fault(~opened, FALSE)
          /\ IF opened
             THEN wpc' = "write" /\ wexc' = wexc
             ELSE wpc' = "close" /\ wexc' = "UpdateFailed"
    /\ UNCHANGED <<codecVars, flowVars, optVars, setupVars, coordVars, unsub_refresh, dbVars, slotVars, wreq,
                   reqTasks>>

\* _write_register: client.write_single_register(address, value & 0xFFFF).
WriteRegister ==
    /\ wpc = "write"
    /\ \E written \in BOOLEAN :
          /\ Fault(~written, FALSE)
          /\ wexc' = IF written THEN wexc ELSE "UpdateFailed"
    /\ wpc' = "close"
    /\ UNCHANGED <<codecVars, flowVars, optVars, setupVars, coordVars, unsub_refresh, dbVars, slotVars, wreq,
                   reqTasks>>

\* _write_register: finally: client.close(); the executor job ends.
WriteClose ==
    /\ wpc = "close"
    /\ wpc' = "done"
    /\ UNCHANGED <<codecVars, flowVars, optVars, setupVars, coordVars, unsub_refresh, dbVars, slotVars, wexc,
                   wreq, reqTasks, faults>>

\* Variant: the refresh request is created in a `finally`.
WriteResumeAlways ==
    /\ wpc = "done"
    /\ reqTasks' = reqTasks + 1
    /\ wreq' = wreq + 1
    /\ wpc' = IF wexc = "none" THEN "returned" ELSE "raised"
    /\ UNCHANGED <<codecVars, flowVars, optVars, setupVars, coordVars, unsub_refresh, dbVars, slotVars, wexc,
                   faults>>

\* Variant: a failed write is logged and the call returns normally.
WriteResumeSwallow ==
    /\ wpc = "done"
    /\ wpc' = "returned"
    /\ IF wexc = "none"
       THEN reqTasks' = reqTasks + 1 /\ wreq' = wreq + 1
       ELSE UNCHANGED <<wreq, reqTasks>>
    /\ UNCHANGED <<codecVars, flowVars, optVars, setupVars, coordVars, unsub_refresh, dbVars, slotVars, wexc,
                   faults>>

\* Variant: no refresh is requested after the write.
WriteResumeNoRefresh ==
    /\ wpc = "done"
    /\ wpc' = IF wexc = "none" THEN "returned" ELSE "raised"
    /\ UNCHANGED <<codecVars, flowVars, optVars, setupVars, coordVars, unsub_refresh, dbVars, slotVars, wexc,
                   wreq, reqTasks, faults>>

\* async_write_register after the await: an exception of the job propagates
\* to the caller; otherwise the refresh request is created as a task and the
\* call returns.
WriteResume ==
    /\ wpc = "done"
    /\ IF wexc = "none"
       THEN /\ reqTasks' = reqTasks + 1
            /\ wreq' = wreq + 1
            /\ wpc' = "returned"
       ELSE /\ wpc' = "raised"
            /\ UNCHANGED <<wreq, reqTasks>>
    /\ UNCHANGED <<codecVars, flowVars, optVars, setupVars, coordVars, unsub_refresh, dbVars, slotVars, wexc,
                   faults>>

\* The caller of async_write_register (the entity's service call) goes on
\* with the result or the error.
WriteAck ==
    /\ wpc \in {"returned", "raised"}
    /\ wpc' = "idle"
    /\ wexc' = "none"
    /\ wreq' = 0
    /\ UNCHANGED <<codecVars, flowVars, optVars, setupVars, coordVars, unsub_refresh, dbVars, slotVars,
                   reqTasks, faults>>

\* ------------------------------------------------------------------ codec

\* str(n) of a natural number: its decimal digits.
Digit == <<"0", "1", "2", "3", "4", "5", "6", "7", "8", "9">>

RECURSIVE Str(_)
Str(n) == IF n < 10 THEN <<Digit[n + 1]>> ELSE Str(n \div 10) \o <<Digit[(n % 10) + 1]>>

\* Python's & on integers, over the low 16 bits: bit i of v is
\* floor(v / 2^i) mod 2, also for a negative v (two's complement without
\* end).
Bit(v, i) == (v \div (2 ^ i)) % 2

RECURSIVE AndBits(_, _, _)
AndBits(v, m, i) ==
    IF i < 0 THEN 0 ELSE Bit(v, i) * Bit(m, i) * (2 ^ i) + AndBits(v, m, i - 1)

\* Variant: masked to 15 bits.
Mask7FFF(v) == AndBits(v, 32767, 15)

\* v & 0xFFFF
MaskFFFF(v) == AndBits(v, 65535, 15)

\* struct.pack(">H", u): the two bytes of u, high byte first.
PackH(u) == <<u \div 256, u % 256>>

\* struct.unpack(">h", b): two bytes as a signed 16-bit integer.
UnpackSignedH(b) ==
    IF b[1] >= 128 THEN (b[1] - 256) * 256 + b[2] ELSE b[1] * 256 + b[2]

\* Variant: struct.unpack(">H", b).
UnpackUnsignedH(b) == b[1] * 256 + b[2]

\* Variant: _s16 unpacked with ">H".
S16Unsigned(raw) == UnpackUnsignedH(PackH(MaskFFFF(raw)))

_s16(raw) == UnpackSignedH(PackH(MaskFFFF(raw)))

\* struct.pack(">I", ((hi & 0xFFFF) << 16) | (lo & 0xFFFF)): the 32-bit word
\* is kept as its four bytes, high byte first.
PackI(hi, lo) == PackH(MaskFFFF(hi)) \o PackH(MaskFFFF(lo))

\* struct.unpack(">i", b): four bytes as a signed 32-bit integer.
UnpackSignedI(b) ==
    (IF b[1] >= 128 THEN (b[1] - 256) * 256 + b[2] ELSE b[1] * 256 + b[2]) * 65536
        + b[3] * 256 + b[4]

\* Variant: the words combined low word first.
S32LowFirst(hi, lo) == UnpackSignedI(PackI(lo, hi))

_s32(hi, lo) == UnpackSignedI(PackI(hi, lo))

\* Variant: the registers of the two SOC limits exchanged.
NumberRegisterSwapped(key) ==
    CASE key = "chpwr" -> 1152
      [] key = "soc_max" -> 1154
      [] key = "soc_min" -> 1153

\* number.py: register, raw_scale and range of each number entity.
NumberRegister(key) ==
    CASE key = "chpwr" -> 1152
      [] key = "soc_max" -> 1153
      [] key = "soc_min" -> 1154

RawScale(key) ==
    CASE key = "chpwr" -> 1
      [] key = "soc_max" -> 100
      [] key = "soc_min" -> 100

NativeMin(key) == IF key = "chpwr" THEN -10000 ELSE 0

NativeMax(key) == IF key = "chpwr" THEN 10000 ELSE 100

NativeStep(key) == IF key = "chpwr" THEN 50 ELSE 1

\* The values of the declared range on the step grid.
NumberValues(key) ==
    {NativeMin(key) + i * NativeStep(key) :
        i \in 0..((NativeMax(key) - NativeMin(key)) \div NativeStep(key))}

\* select.py: register and options_map of the work mode select.
SelectRegister(key) == 1103

OptionsMap ==
    2 :> <<"Self-consumption">> @@ 3 :> <<"Reserve Power">>
        @@ 4 :> <<"Custom">> @@ 5 :> <<"Time of Use">>

\* None, as a label or an option.
None == <<>>

\* _reverse_map.get(option)
ReverseMapGet(option) ==
    IF \E raw \in DOMAIN OptionsMap : OptionsMap[raw] = option
    THEN CHOOSE raw \in DOMAIN OptionsMap : OptionsMap[raw] = option
    ELSE -1

\* options_map.get(raw) of current_option.
CurrentOption(raw) == IF raw \in DOMAIN OptionsMap THEN OptionsMap[raw] ELSE None

\* The enum tables of the coordinator.
_INV_STATUS ==
    0 :> <<"Waiting">> @@ 1 :> <<"Normal">> @@ 2 :> <<"Fault">> @@ 4 :> <<"Checking">>

_BATT_STATUS ==
    0 :> <<"N/A">> @@ 1 :> <<"Idle">> @@ 2 :> <<"Charging">>
        @@ 3 :> <<"Discharging">> @@ 4 :> <<"Error">>

_CHFLG == 1 :> <<"Stop">> @@ 2 :> <<"Charging">> @@ 3 :> <<"Discharging">>

\* f"Unknown({raw})"
Unknown(raw) == <<"Unknown(">> \o Str(raw) \o <<")">>

\* table.get(raw, f"Unknown({raw})")
TableGet(table, raw) == IF raw \in DOMAIN table THEN table[raw] ELSE Unknown(raw)

\* Offset in the settings block of the register each key is decoded from.
HoldOffset(key) ==
    CASE key = "work_mode" -> 1103 - 1100
      [] key = "cloud_status" -> 1150 - 1100
      [] key = "chflg" -> 1151 - 1100
      [] key = "chpwr" -> 1152 - 1100
      [] key = "soc_max" -> 1153 - 1100
      [] key = "soc_min" -> 1154 - 1100

\* Variant: chpwr stored as the raw word.
DecodeHoldRaw(key, word) ==
    CASE key = "chflg" -> TableGet(_CHFLG, word)
      [] key \in {"soc_max", "soc_min"} -> word \div 100
      [] OTHER -> word

\* The value stored for a key of the settings block, from its register.
DecodeHold(key, word) ==
    CASE key = "work_mode" -> word
      [] key = "cloud_status" -> word
      [] key = "chflg" -> TableGet(_CHFLG, word)
      [] key = "chpwr" -> _s16(word)
      [] key = "soc_max" -> word \div 100
      [] key = "soc_min" -> word \div 100

\* read_holding_registers(1100, 55) answered in full, and its decoding.
ReadHold == [i \in 0..(Count("hold") - 1) |-> holding[HoldBase + i]]

HoldSnapshot ==
    [key \in BlockKeys("hold") |-> DecodeHold(key, ReadHold[HoldOffset(key)])]

\* Registers the decoder passes to _s32: offsets of the high and the low
\* word in the block's response.
S32Words(key) ==
    CASE key = "sac" -> <<1368 - 1300, 1369 - 1300>>
      [] key = "pac" -> <<1370 - 1300, 1371 - 1300>>
      [] key = "qac" -> <<1372 - 1300, 1373 - 1300>>
      [] key = "pb" -> <<2, 3>>

S32Keys == {"sac", "pac", "qac", "pb"}

\* The label an enum-typed field is shown with: flg, bst and chflg are
\* decoded by _fetch_data, work_mode by the select's current_option.
EnumKeys == {"flg", "bst", "chflg", "work_mode"}

EnumTable(key) ==
    CASE key = "flg" -> _INV_STATUS
      [] key = "bst" -> _BATT_STATUS
      [] key = "chflg" -> _CHFLG
      [] key = "work_mode" -> OptionsMap

EnumLabel(key, raw) ==
    IF key = "work_mode" THEN CurrentOption(raw) ELSE TableGet(EnumTable(key), raw)

\* No register was written.
NoWord == -1

\* Words the 32-bit decoder is called with.
Words == {0, 1, 255, 256, 32767, 32768, 65534, 65535}

\* Raw values the enum fields are decoded from.
EnumRaws == (0..8) \cup {10, 255, 32768, 65535}

\* Options a select call is made with: those of the entity and one it does
\* not have.
SelectOptions == {OptionsMap[raw] : raw \in DOMAIN OptionsMap} \cup {<<"Off Grid">>}

\* Offsets in a block's response that its decoder reads.
WordsRead(b) ==
    CASE b = "inv" ->
             {1307 - 1300, 1308 - 1300, 1310 - 1300, 1316 - 1300, 1358 - 1300,
              1359 - 1300, 1367 - 1300, 1368 - 1300, 1369 - 1300, 1370 - 1300,
              1371 - 1300, 1372 - 1300, 1373 - 1300, 1374 - 1300}
      [] b = "bstat" -> {0, 1}
      [] b = "bdata" -> 0..12
      [] b = "hold" -> {HoldOffset(key) : key \in BlockKeys("hold")}

\* How the decoding of a response of len words ends: the block is skipped,
\* every regs[i] is within the list, or one is past its end (IndexError).
DecodeOutcome(b, len) ==
    IF ~Accepted(b, len) THEN "skipped"
    ELSE IF \E i \in WordsRead(b) : i >= len THEN "IndexError"
    ELSE "decoded"

\* Base address of the inverter block and offset of the temperature word.
InvBase == 1300

TmpOffset == 1310 - 1300

\* Variant: the temperature decoded without the not-fitted value.
InvTmpNoSentinel(raw) == <<_s16(raw)>>

\* data["tmp"] from the word of register 1310: None, or <<t>> for t tenths
\* of a degree (round(tmp_raw * 0.1, 1) is the decimal t / 10).
InvTmp(raw) == IF _s16(raw) = -32768 THEN None ELSE <<_s16(raw)>>

\* The calls studied, one at a time.
S16Calls == {[fn |-> "_s16", raw |-> raw] : raw \in 0..65535}

S32Calls == {[fn |-> "_s32", hi |-> hi, lo |-> lo] : hi \in Words, lo \in Words}

WriteRegisterCalls ==
    {[fn |-> "_write_register", address |-> NumberRegister("chpwr"), value |-> value] :
        value \in (-32768)..65535}

SetNativeValueCalls ==
    {[fn |-> "async_set_native_value", key |-> kv[1], value |-> kv[2]] :
        kv \in UNION {{<<key, value>> : value \in NumberValues(key)} : key \in NumberKeys}}

SelectOptionCalls ==
    {[fn |-> "async_select_option", key |-> "work_mode", option |-> option] :
        option \in SelectOptions}

EnumCalls ==
    {[fn |-> "enum_field", key |-> key, raw |-> raw] : key \in EnumKeys, raw \in EnumRaws}

ReadBlockCalls ==
    {[fn |-> "read_block", block |-> bl[1], len |-> bl[2]] :
        bl \in UNION {{<<b, len>> : len \in {NoResponse} \cup (0..Count(b))} : b \in Blocks}}

DecodeBlockCalls ==
    {[fn |-> "decode_block", block |-> bl[1], len |-> bl[2]] :
        bl \in UNION {{<<b, len>> : len \in {NoResponse} \cup (0..Count(b))} : b \in Blocks}}

InvTmpCalls == {[fn |-> "inv_tmp", raw |-> raw] : raw \in 0..65535}

InitCodec ==
    /\ InitPoll
    /\ InitFlow
    /\ \/ call \in S16Calls
       \/ call \in S32Calls
       \/ call \in WriteRegisterCalls
       \/ call \in SetNativeValueCalls
       \/ call \in SelectOptionCalls
       \/ call \in EnumCalls
       \/ call \in ReadBlockCalls
       \/ call \in DecodeBlockCalls
       \/ call \in InvTmpCalls
    /\ ret = <<>>
    /\ holding = [a \in HoldAddrs |-> 0]

CallS16 ==
    /\ call.fn = "_s16"
    /\ ret = <<>>
    /\ ret' = <<_s16(call.raw)>>
    /\ UNCHANGED <<pollVars, flowVars, call, holding>>

CallS32 ==
    /\ call.fn = "_s32"
    /\ ret = <<>>
    /\ ret' = <<_s32(call.hi, call.lo)>>
    /\ UNCHANGED <<pollVars, flowVars, call, holding>>

\* _write_register with the connection open and the write accepted: the
\* device stores the word transmitted.
CallWriteRegister ==
    /\ call.fn = "_write_register"
    /\ ret = <<>>
    /\ holding' = [holding EXCEPT ![call.address] = MaskFFFF(call.value)]
    /\ ret' = <<holding'[call.address]>>
    /\ UNCHANGED <<pollVars, flowVars, call>>

\* VoltxNumberEntity.async_set_native_value, the write succeeding: the grid
\* values are whole numbers, so round() and int() leave value * raw_scale as
\* it is.
SetNativeValue ==
    /\ call.fn = "async_set_native_value"
    /\ ret = <<>>
    /\ LET raw == call.value * RawScale(call.key) IN
       holding' = [holding EXCEPT ![NumberRegister(call.key)] = MaskFFFF(raw)]
    /\ ret' = <<holding'[NumberRegister(call.key)]>>
    /\ UNCHANGED <<pollVars, flowVars, call>>

\* VoltxSelectEntity.async_select_option, the write succeeding: an option
\* that is not in the reverse map writes nothing.
SelectOption ==
    /\ call.fn = "async_select_option"
    /\ ret = <<>>
    /\ LET raw == ReverseMapGet(call.option) IN
       IF raw = -1
       THEN /\ ret' = <<NoWord>>
            /\ holding' = holding
       ELSE /\ holding' = [holding EXCEPT ![SelectRegister(call.key)] = MaskFFFF(raw)]
            /\ ret' = <<holding'[SelectRegister(call.key)]>>
    /\ UNCHANGED <<pollVars, flowVars, call>>

\* The poll cycle after an entity's write: the settings block is read and
\* decoded.
PollSettings ==
    /\ call.fn \in {"async_set_native_value", "async_select_option"}
    /\ Len(ret) = 1
    /\ ret' = Append(ret, HoldSnapshot)
    /\ UNCHANGED <<pollVars, flowVars, call, holding>>

\* An enum-typed field is decoded from a register value.
ReadEnum ==
    /\ call.fn = "enum_field"
    /\ ret = <<>>
    /\ ret' = <<EnumLabel(call.key, call.raw)>>
    /\ UNCHANGED <<pollVars, flowVars, call, holding>>

\* One block read of _fetch_data answered with len words: the keys decoded.
ReadBlock ==
    /\ call.fn = "read_block"
    /\ ret = <<>>
    /\ ret' = <<IF Accepted(call.block, call.len) THEN BlockKeys(call.block) ELSE {}>>
    /\ UNCHANGED <<pollVars, flowVars, call, holding>>

\* One block of _fetch_data answered with len words: the words its decoder
\* indexes.
DecodeBlock ==
    /\ call.fn = "decode_block"
    /\ ret = <<>>
    /\ ret' = <<DecodeOutcome(call.block, call.len)>>
    /\ UNCHANGED <<pollVars, flowVars, call, holding>>

\* The inverter block's temperature word is decoded.
DecodeTmp ==
    /\ call.fn = "inv_tmp"
    /\ ret = <<>>
    /\ ret' = <<InvTmp(call.raw)>>
    /\ UNCHANGED <<pollVars, flowVars, call, holding>>

NextCodec ==
    \/ CallS16
    \/ CallS32
    \/ CallWriteRegister
    \/ SetNativeValue
    \/ SelectOption
    \/ PollSettings
    \/ ReadEnum
    \/ ReadBlock
    \/ DecodeBlock
    \/ DecodeTmp

SpecCodec == InitCodec /\ [][NextCodec]_vars

\* ------------------------------------------------------------ config flow

\* Host names as typed into the form: sequences of characters.
RawHosts == {<<"a">>, <<" ", "a">>, <<"a", " ">>, <<"b">>}

\* Ports and slave ids submitted (the form takes 1..65535 and 1..247).
Ports == {502}

SlaveIds == {3, 4}

\* str.strip(): leading and trailing blanks removed.
RECURSIVE LStrip(_)
LStrip(h) == IF h # <<>> /\ Head(h) = " " THEN LStrip(Tail(h)) ELSE h

RECURSIVE RStrip(_)
RStrip(h) ==
    IF h # <<>> /\ h[Len(h)] = " " THEN RStrip(SubSeq(h, 1, Len(h) - 1)) ELSE h

Strip(h) == RStrip(LStrip(h))

\* f"{host}_{port}_{slave_id}"
UniqueId(host, port, slave_id) ==
    host \o <<"_">> \o Str(port) \o <<"_">> \o Str(slave_id)

\* _abort_if_unique_id_configured: an entry of the domain has this unique id.
UniqueIdConfigured(uid) == \E e \in EntryIds : entries[e].unique_id = uid

FreeEntryIds == {e \in EntryIds : entries[e] = NoEntry}

\* A flow waiting for _validate_connection, and a flow that has ended.
FlowAt(step, entry, host, port, slave_id) ==
    [step |-> step, entry |-> entry, host |-> host, port |-> port,
     slave_id |-> slave_id]

FlowResult(type, reason) == [step |-> "result", type |-> type, reason |-> reason]

\* async_step_user with user input, up to `await _validate_connection`: the
\* flow aborts when the unique id is configured already.
StepUser ==
    /\ flow = NoFlow
    /\ FreeEntryIds # {}
    /\ \E h \in RawHosts, port \in Ports, slave_id \in SlaveIds :
          LET host == Strip(h) IN
          flow' = IF UniqueIdConfigured(UniqueId(host, port, slave_id))
                  THEN FlowResult("abort", "already_configured")
                  ELSE FlowAt("user", 0, host, port, slave_id)
    /\ UNCHANGED <<codecVars, pollVars, entries>>

\* async_step_user after _validate_connection: the form again with
\* cannot_connect, or async_create_entry.
StepUserValidated ==
    /\ flow.step = "user"
    /\ \E connected \in BOOLEAN :
          IF connected
          THEN /\ entries' =
                     [entries EXCEPT ![CHOOSE e \in FreeEntryIds :
                                           \A f \in FreeEntryIds : e <= f] =
                         [unique_id |-> UniqueId(flow.host, flow.port, flow.slave_id),
                          data |-> <<flow.host, flow.port, flow.slave_id>>]]
               /\ flow' = FlowResult("create_entry", "")
          ELSE /\ flow' = FlowResult("form", "cannot_connect")
               /\ entries' = entries
    /\ UNCHANGED <<codecVars, pollVars>>

\* async_step_reconfigure with user input, up to `await
\* _validate_connection`.
StepReconfigure ==
    /\ flow = NoFlow
    /\ \E e \in EntryIds \ FreeEntryIds :
       \E h \in RawHosts, port \in Ports, slave_id \in SlaveIds :
          flow' = FlowAt("reconfigure", e, Strip(h), port, slave_id)
    /\ UNCHANGED <<codecVars, pollVars, entries>>

\* async_step_reconfigure after _validate_connection: the form again, or
\* async_update_reload_and_abort with the new unique id and data.
StepReconfigureValidated ==
    /\ flow.step = "reconfigure"
    /\ \E connected \in BOOLEAN :
          IF connected
          THEN /\ entries' =
                     [entries EXCEPT ![flow.entry] =
                         [unique_id |-> UniqueId(flow.host, flow.port, flow.slave_id),
                          data |-> <<flow.host, flow.port, flow.slave_id>>]]
               /\ flow' = FlowResult("abort", "reconfigure_successful")
          ELSE /\ flow' = FlowResult("form", "cannot_connect")
               /\ entries' = entries
    /\ UNCHANGED <<codecVars, pollVars>>

\* The flow's result has been shown.
FlowEnd ==
    /\ flow.step = "result"
    /\ flow' = NoFlow
    /\ UNCHANGED <<codecVars, pollVars, entries>>

\* The user deletes an entry.
RemoveEntry ==
    /\ flow = NoFlow
    /\ \E e \in EntryIds \ FreeEntryIds : entries' = [entries EXCEPT ![e] = NoEntry]
    /\ UNCHANGED <<codecVars, pollVars, flow>>

NextFlow ==
    \/ StepUser
    \/ StepUserValidated
    \/ StepReconfigure
    \/ StepReconfigureValidated
    \/ FlowEnd
    \/ RemoveEntry

SpecFlow == Init /\ [][NextFlow]_vars

\* ------------------------------------------------------------------- next

Next ==
    \/ SetupEntry
    \/ SetupForward
    \/ OptionsFlowInit
    \/ UpdateListener
    \/ TimerTick
    \/ RunRequest
    \/ DebounceTimerFinish
    \/ \E s \in Slots : FetchOpen(s)
    \/ \E s \in Slots : FetchRead(s)
    \/ \E s \in Slots : FetchClose(s)
    \/ \E s \in Slots : UpdateData(s)
    \/ \E s \in Slots : RefreshFinish(s)
    \/ WriteCall
    \/ WriteOpen
    \/ WriteRegister
    \/ WriteClose
    \/ WriteResume
    \/ WriteAck

Spec == Init /\ [][Next]_vars

\* The event loop runs every task it holds, an executor job runs to its end
\* (every Modbus call is bounded by the client's timeout) and the debouncer's
\* cool-down ends.  Timer ticks, write calls and set-ups are the
\* environment's and are not forced.
Fairness ==
    /\ WF_vars(SetupForward)
    /\ WF_vars(UpdateListener)
    /\ WF_vars(RunRequest)
    /\ WF_vars(DebounceTimerFinish)
    /\ \A s \in Slots :
          WF_vars(FetchOpen(s) \/ FetchRead(s) \/ FetchClose(s)
                    \/ UpdateData(s) \/ RefreshFinish(s))
    /\ WF_vars(WriteOpen \/ WriteRegister \/ WriteClose \/ WriteResume \/ WriteAck)

SpecLive == Spec /\ Fairness

\* ----------------------------------------------------------------- claims

\* The step that ends the poll cycle of slot s.
CycleEnds(s) == pc[s] = "result" /\ pc'[s] = "idle"

\* C1: a cycle whose four block reads all fail is reported as failed and
\* leaves coordinator.data the object it was.
C1_AllBlocksFailedKeepsSnapshot ==
    [][\A s \in Slots :
          (CycleEnds(s) /\ exc[s] = "none" /\ idx[s] = NumBlocks + 1 /\ ok[s] = {})
              => (~last_update_success' /\ data' = data)]_vars

\* C2: a cycle in which the connection opens, no read raises and some but
\* not all blocks are answered has read all four blocks, is successful, and
\* its snapshot is a new mapping holding exactly the keys of the answered
\* blocks.
C2_PartialCycle ==
    [][\A s \in Slots :
          (CycleEnds(s) /\ exc[s] # "Exception" /\ ok[s] # {} /\ ok[s] # Blocks)
              => /\ idx[s] = NumBlocks + 1
                 /\ data'.keys = KeysOf(ok[s])
                 /\ data'.obj # data.obj
                 /\ last_update_success']_vars

\* C2: a successful snapshot without the keys of the second block and with
\* the keys of the blocks read after it.
C2_Witness ==
    /\ last_update_success
    /\ data.keys = KeysOf({"inv", "bdata", "hold"})

\* C3: the coordinator becomes the entry's runtime data only with a snapshot
\* of at least one field.
C3_ExposedOnlyWithData ==
    [][(~runtime_data /\ runtime_data') => data'.keys # {}]_vars

\* C4: no _write_register job runs while a _fetch_data job runs.
C4_WriteNeverOverlapsFetch ==
    ~(wpc \in {"open", "write", "close"} /\ \E s \in Slots : InFetch(s))

\* C5: at most one _fetch_data job runs at a time.
C5_OnePollAtATime == Cardinality({s \in Slots : InFetch(s)}) <= 1

\* C6: when async_write_register has ended, it has created one refresh
\* request if the write succeeded and none if it failed.
C6_OneRefreshPerSuccessfulWrite ==
    wpc \in {"returned", "raised"} => wreq = (IF wexc = "none" THEN 1 ELSE 0)

\* C6: a failed write has ended and no refresh request exists.
C6_Witness == wpc = "raised" /\ wexc = "UpdateFailed" /\ wreq = 0 /\ reqTasks = 0

\* C7: no step of a write call changes coordinator.data or
\* last_update_success, and a failed write ends with the error raised to the
\* caller.
C7_FailedWriteRaises ==
    [][/\ (wpc' # wpc) => (data' = data /\ last_update_success' = last_update_success)
       /\ (wpc = "done" /\ wpc' # wpc /\ wexc # "none") => wpc' = "raised"]_vars

\* C7: a failed write has raised while the coordinator holds a snapshot of a
\* successful cycle.
C7_Witness ==
    /\ wpc = "raised"
    /\ data.obj # 0
    /\ last_update_success

C9_FailedCycleReturnsToIdle ==
    [][\A s \in Slots :
          (CycleEnds(s) /\ exc[s] # "none")
              => /\ ~last_update_success'
                 /\ \A t \in Slots : pc'[t] = "open" => pc[t] = "open"
                 /\ IF setup = "first_refresh"
                    THEN setup' = "not_ready"
                    ELSE unsub_refresh']_vars

\* C9: after a failed cycle of a loaded entry everything is idle and the
\* timer is armed.
C9_Witness ==
    /\ setup = "loaded"
    /\ ~last_update_success
    /\ unsub_refresh
    /\ \A s \in Slots : pc[s] = "idle"

\* C10: _async_update_data ends with data or with UpdateFailed, and with
\* UpdateFailed whenever _fetch_data raised.
C10_OnlyUpdateFailedEscapes ==
    \A s \in Slots :
        pc[s] = "result"
            => /\ res[s] \in {"data", "UpdateFailed"}
               /\ exc[s] # "none" => res[s] = "UpdateFailed"

\* C10: _fetch_data raised something else and the cycle ended as UpdateFailed.
C10_Witness ==
    \E s \in Slots :
        pc[s] = "result" /\ exc[s] = "Exception" /\ res[s] = "UpdateFailed"

\* C11: coordinator.data is None or a dict no running cycle is writing to,
\* and it changes only by a new coordinator starting with None or by the end
\* of a cycle whose _fetch_data went through all four blocks and returned:
\* data becomes the dict that cycle returned.
C11_SnapshotNeverPartial ==
    /\ [](\A s \in Slots : acc[s].obj # 0 => data.obj # acc[s].obj)
    /\ [][data' # data =>
            \/ data' = NoObj
            \/ \E s \in Slots :
                  /\ CycleEnds(s)
                  /\ res[s] = "data"
                  /\ idx[s] = NumBlocks + 1
                  /\ data' = acc[s]]_vars

\* C11: after a failed cycle, a later cycle has decoded two blocks into its
\* own dict while consumers still read the full snapshot of an earlier cycle.
C11_Witness ==
    /\ ~last_update_success
    /\ data.keys = KeysOf(Blocks)
    /\ \E s \in Slots :
          pc[s] = "read" /\ idx[s] = 3 /\ acc[s].keys = KeysOf({"inv", "bstat"})

\* C12: the step in which the update listener runs for changed options
\* leaves the coordinator, its snapshot, the entities and the set-up state as
\* they were, and gives the coordinator the new interval.
C12_OptionsUpdateKeepsCoordinator ==
    [][listenerTasks' < listenerTasks =>
          /\ update_interval' = options
          /\ data' = data
          /\ setup' = setup
          /\ runtime_data' = runtime_data
          /\ entities' = entities]_vars

\* C13: no two config entries have the same unique id or the same host,
\* port and slave id.
C13_EntriesDistinct ==
    \A e, f \in EntryIds :
        (e # f /\ entries[e] # NoEntry /\ entries[f] # NoEntry)
            => /\ entries[e].unique_id # entries[f].unique_id
               /\ entries[e].data # entries[f].data

\* C14: a number entity's value of its range and step grid, written and
\* polled back, is the value the entity then reads from the snapshot.
C14_NumberRoundTrip ==
    (call.fn = "async_set_native_value" /\ Len(ret) = 2)
        => ret[2][call.key] = call.value

\* C14: -5000 W written as 0xEC78 and read back as -5000.
C14_Witness ==
    /\ call.fn = "async_set_native_value"
    /\ call.key = "chpwr"
    /\ call.value = -5000
    /\ Len(ret) = 2
    /\ ret[1] = 60536
    /\ ret[2]["chpwr"] = -5000

\* C15: the word a register write transmits is the value modulo 2^16:
\* 65536 + v for v in -32768..-1, v itself for v in 0..65535.
C15_WordIsValueMod65536 ==
    (call.fn = "_write_register" /\ Len(ret) = 1)
        => /\ ret[1] = (IF call.value < 0 THEN 65536 + call.value ELSE call.value)
           /\ holding[call.address] = ret[1]

\* C15: -5000 is sent as 0xEC78.
C15_Witness ==
    /\ call.fn = "_write_register"
    /\ call.value = -5000
    /\ ret = <<60536>>

\* C16: _s16(raw) is raw below 32768 and raw - 65536 from 32768 on.
C16_S16TwosComplement ==
    (call.fn = "_s16" /\ Len(ret) = 1)
        => ret[1] = (IF call.raw < 32768 THEN call.raw ELSE call.raw - 65536)

\* C16: _s16(0x8000) = -32768.
C16_Witness ==
    /\ call.fn = "_s16"
    /\ call.raw = 32768
    /\ ret = <<-32768>>

\* C17: _s32(hi, lo) is the signed 32-bit value of hi * 65536 + lo (that is
\* (hi - 65536) * 65536 + lo when hi has its top bit set), and the decoder
\* passes as hi the register just below the one it passes as lo.
C17_S32TwosComplement ==
    /\ \A key \in S32Keys : S32Words(key)[1] + 1 = S32Words(key)[2]
    /\ (call.fn = "_s32" /\ Len(ret) = 1)
          => ret[1] = (IF call.hi >= 32768
                       THEN (call.hi - 65536) * 65536 + call.lo
                       ELSE call.hi * 65536 + call.lo)

\* C17: _s32(0xFFFF, 0xFFFF) = -1.
C17_Witness ==
    /\ call.fn = "_s32"
    /\ call.hi = 65535
    /\ call.lo = 65535
    /\ ret = <<-1>>

\* C18: an enum-typed field decodes to its table's label, or to
\* "Unknown(<raw>)" for a raw value that is not in the table.
C18_EnumLabelOrUnknown ==
    (call.fn = "enum_field" /\ Len(ret) = 1)
        => ret[1] = (IF call.raw \in DOMAIN EnumTable(call.key)
                     THEN EnumTable(call.key)[call.raw]
                     ELSE Unknown(call.raw))

\* C19: every key an entity writes is a key of the settings block, its
\* write register is the register the poll decodes it from, and the poll
\* after a write stores for the key what the word written decodes to.
C19_WrittenKeyIsPolled ==
    /\ \A key \in NumberKeys :
          /\ key \in BlockKeys("hold")
          /\ NumberRegister(key) = HoldBase + HoldOffset(key)
    /\ \A key \in SelectKeys :
          /\ key \in BlockKeys("hold")
          /\ SelectRegister(key) = HoldBase + HoldOffset(key)
    /\ (/\ call.fn \in {"async_set_native_value", "async_select_option"}
        /\ Len(ret) = 2
        /\ ret[1] # NoWord)
          => ret[2][call.key] = DecodeHold(call.key, ret[1])

\* C19: the work mode Custom was written as 4 and the poll stores 4.
C19_Witness ==
    /\ call.fn = "async_select_option"
    /\ call.option = <<"Custom">>
    /\ Len(ret) = 2
    /\ ret[1] = 4
    /\ ret[2]["work_mode"] = 4

\* C20: a block is decoded only from a response of the requested count.
C20_OnlyFullResponseDecoded ==
    (call.fn = "read_block" /\ Len(ret) = 1 /\ ret[1] # {})
        => call.len = Count(call.block)

\* C21: a refused connection raises UpdateFailed with no block read made
\* and goes to client.close(); the cycle ends failed with coordinator.data
\* the object it was; a cycle whose connection opened and whose reads all
\* failed does not end with that failure.
C21_RefusedConnection ==
    [][\A s \in Slots :
          /\ (pc[s] = "open" /\ exc'[s] = "UpdateFailed")
                => (pc'[s] = "close" /\ idx'[s] = 0 /\ acc'[s] = NoObj)
          /\ (pc[s] = "close" /\ pc'[s] # "close") => pc'[s] = "done"
          /\ (CycleEnds(s) /\ exc[s] = "UpdateFailed")
                => /\ idx[s] = 0
                   /\ res[s] = "UpdateFailed"
                   /\ ~last_update_success'
                   /\ data' = data
          /\ (CycleEnds(s) /\ idx[s] = NumBlocks + 1 /\ ok[s] = {})
                => res[s] # "UpdateFailed"]_vars

\* C21: a cycle of a coordinator with a snapshot ended with UpdateFailed
\* from a refused connection, having read no block.
C21_Witness ==
    \E s \in Slots :
        /\ pc[s] = "result"
        /\ exc[s] = "UpdateFailed"
        /\ res[s] = "UpdateFailed"
        /\ idx[s] = 0
        /\ data.keys = KeysOf(Blocks)

\* C22: every offset a block's decoder reads is below the least length its
\* check accepts, and no accepted response makes the decoder index past the
\* end of the list.
C22_DecoderStaysInResponse ==
    /\ \A b \in Blocks : \A i \in WordsRead(b) : 0 <= i /\ i < MinWords(b)
    /\ (call.fn = "decode_block" /\ Len(ret) = 1) => ret[1] # "IndexError"

\* C22: the inverter block decoded from the shortest response accepted.
C22_Witness ==
    /\ call.fn = "decode_block"
    /\ call.block = "inv"
    /\ call.len = 75
    /\ ret = <<"decoded">>

\* C23: an inverter block that is decoded stores the key tmp; its value,
\* taken from register 1310, is None exactly for the word 0x8000 and
\* otherwise the word read as a signed 16-bit number of tenths of a degree.
C23_TmpSentinel ==
    /\ InvBase + TmpOffset = 1310
    /\ TmpOffset \in WordsRead("inv")
    /\ (call.fn = "read_block" /\ call.block = "inv" /\ Len(ret) = 1 /\ ret[1] # {})
          => "tmp" \in ret[1]
    /\ (call.fn = "inv_tmp" /\ Len(ret) = 1)
          => /\ (ret[1] = None) <=> (call.raw = 32768)
             /\ call.raw # 32768
                   => ret[1] = <<IF call.raw < 32768 THEN call.raw
                                 ELSE call.raw - 65536>>

\* C23: the word 0x8000 decoded to None.
C23_Witness ==
    /\ call.fn = "inv_tmp"
    /\ call.raw = 32768
    /\ ret = <<None>>

\* C24: an entity is available exactly when the last cycle to end succeeded,
\* coordinator.data is not None and holds the entity's key; at the end of a
\* cycle the entities available are those of the blocks that cycle decoded,
\* and none when it failed.
C24_AvailableIffKeyInSnapshot ==
    /\ [](\A e \in entities :
             Available(e) <=> (last_update_success /\ data # NoObj /\ e[2] \in data.keys))
    /\ [][\A s \in Slots :
             CycleEnds(s) =>
                 \A e \in entities :
                     Available(e)' <=> /\ res[s] = "data"
                                       /\ \E b \in ok[s] : e[2] \in BlockKeys(b)]_vars

\* C24: after a cycle in which only the battery status block failed, its
\* sensor is unavailable and the sensors of the other blocks are available.
C24_Witness ==
    /\ <<"sensor", "bst">> \in entities
    /\ ~Available(<<"sensor", "bst">>)
    /\ Available(<<"sensor", "pac">>)
    /\ Available(<<"sensor", "soc">>)
    /\ Available(<<"select", "work_mode">>)

\* C25: the entities change only when the platforms are set up, to the
\* catalogue entries whose key is in coordinator.data at that moment, and
\* when a reload removes them all; no cycle adds or removes an entity.
C25_EntitiesFixedAtSetup ==
    [][entities' # entities =>
          \/ /\ setup = "refreshed"
             /\ setup' = "loaded"
             /\ entities' = {e \in Catalogue : e[2] \in data.keys}
          \/ /\ setup = "loaded"
             /\ setup' = "first_refresh"
             /\ entities' = {}]_vars

\* C25: the battery status block failed in the first cycle and is delivered
\* by a later one: the snapshot holds bst and there is no entity for it.
C25_Witness ==
    /\ setup = "loaded"
    /\ entities = {e \in Catalogue : e[2] \in KeysOf(Blocks \ {"bstat"})}
    /\ last_update_success
    /\ "bst" \in data.keys

====
